---- MODULE Spec2Model ----
(***************************************************************************)
(* Model of tools/extract-families-portuguese.py: a script that opens a    *)
(* PDF, scans every page for "Ordem <Latin> <Portuguese>" and              *)
(* "Família <Latin> <Portuguese>", accumulates two insertion-ordered       *)
(* dictionaries and writes them to a text file and to standard output.     *)
(*                                                                         *)
(* Text is a sequence of one-character strings.  The literal parts of the  *)
(* messages the script prints or writes are kept as single elements (one   *)
(* string per literal, line feeds apart), so the content of the output     *)
(* file and of standard output is a sequence of such elements.             *)
(***************************************************************************)
EXTENDS Integers, Sequences, FiniteSets, TLC

VARIABLES
    argv,         \* sys.argv of the current invocation
    pdf,          \* what the path names: [kind, pages]
    outfile,      \* families-e-ordens-em-portugues.txt: [exists, data]
    pc,           \* position of the script
    doc,          \* the fitz handle: "none", "open", "closed"
    page_num,     \* loop variable of the page loop (next index to load)
    text,         \* text of the page being scanned
    ordens,       \* dict Latin order name -> Portuguese name
    familias,     \* dict Latin family name -> Portuguese name
    stdout,       \* what this invocation has printed
    traceback,    \* an uncaught exception ended the invocation
    exit_code,    \* process exit status, -1 while running
    read,         \* history: page indices loaded by this invocation
    run,          \* history: number of the current invocation
    fileAtStart,  \* history: outfile when this invocation started
    prevSaved     \* history: the previous invocation saved its results

vars == <<argv, pdf, outfile, pc, doc, page_num, text, ordens, familias,
          stdout, traceback, exit_code, read, run, fileAtStart, prevSaved>>

(***************************************************************************)
(* Bounds                                                                  *)
(***************************************************************************)
MaxPages == 3
MaxRuns == 2

(***************************************************************************)
(* Character classes of the two regular expressions                        *)
(***************************************************************************)
Upper == {"A", "B", "C", "D", "E", "F", "G", "H", "I", "J", "K", "L", "M",
          "N", "O", "P", "Q", "R", "S", "T", "U", "V", "W", "X", "Y", "Z"}
Lower == {"a", "b", "c", "d", "e", "f", "g", "h", "i", "j", "k", "l", "m",
          "n", "o", "p", "q", "r", "s", "t", "u", "v", "w", "x", "y", "z"}
Accented == {"á", "é", "í", "ó", "ú", "ã", "õ", "ç"}
\* \s: the white space that occurs in the page texts of the model
Space == {" ", "\n", "\t"}

\* [A-Za-z]
LatinClass == Upper \cup Lower
\* [a-záéíóúãõç]
PortugueseClass == Lower \cup Accented

ORDEM == <<"O", "r", "d", "e", "m">>
FAMILIA == <<"F", "a", "m", "í", "l", "i", "a">>

\* First index j >= i with s[j] outside class (Len(s)+1 when there is none):
\* the end of a greedy X+ started at i.
RunEnd(s, i, class) ==
    LET end[j \in 1..(Len(s) + 1)] ==
            IF j > Len(s) \/ s[j] \notin class THEN j ELSE end[j + 1]
    IN  IF i > Len(s) THEN i ELSE end[i]

\* keyword\s+([A-Za-z]+)\s+([a-záéíóúãõç]+) tried at position i.  Each greedy
\* run is followed by a class disjoint from its own, so giving characters back
\* never turns a failure into a match: the greedy runs decide.
MatchAt(s, i, keyword) ==
    LET a == i + Len(keyword)
        b == RunEnd(s, a, Space)
        c == RunEnd(s, b, LatinClass)
        d == RunEnd(s, c, Space)
        e == RunEnd(s, d, PortugueseClass)
    IN  IF /\ a - 1 <= Len(s)
           /\ SubSeq(s, i, a - 1) = keyword
           /\ b > a /\ c > b /\ d > c /\ e > d
        THEN [ok |-> TRUE, g1 |-> SubSeq(s, b, c - 1), g2 |-> SubSeq(s, d, e - 1),
              end |-> e]
        ELSE [ok |-> FALSE, g1 |-> <<>>, g2 |-> <<>>, end |-> i]

\* pattern.finditer(text): the non-overlapping matches, left to right.  The
\* search restarts where the last match ended, or one character further on
\* when nothing matches at the current position.
finditer(s, keyword) ==
    LET from[pos \in 1..(Len(s) + 1)] ==
            IF pos > Len(s) THEN <<>>
            ELSE LET m == MatchAt(s, pos, keyword)
                 IN  IF m.ok THEN <<[g1 |-> m.g1, g2 |-> m.g2]>> \o from[m.end]
                     ELSE from[pos + 1]
    IN  from[1]

(***************************************************************************)
(* Python dict: a sequence of [k, v] in insertion order                    *)
(***************************************************************************)
HasKey(d, k) == \E i \in DOMAIN d : d[i].k = k

\* Variant: an existing key keeps its first value (d.setdefault(k, v)).
DictSet_FirstWins(d, k, v) ==
    IF HasKey(d, k) THEN d ELSE Append(d, [k |-> k, v |-> v])

\* Variant: overwriting a key moves it to the end (del d[k]; d[k] = v).
DictSet_MoveToEnd(d, k, v) ==
    Append(SelectSeq(d, LAMBDA e : e.k # k), [k |-> k, v |-> v])

\* d[k] = v
DictSet(d, k, v) ==
    IF HasKey(d, k)
    THEN [i \in DOMAIN d |-> IF d[i].k = k THEN [k |-> k, v |-> v] ELSE d[i]]
    ELSE Append(d, [k |-> k, v |-> v])

\* for match in matches: d[match.group(1)] = match.group(2)
Accumulate(d, matches) ==
    LET after[n \in 0..Len(matches)] ==
            IF n = 0 THEN d
            ELSE DictSet(after[n - 1], matches[n].g1, matches[n].g2)
    IN  after[Len(matches)]

(***************************************************************************)
(* Output layout                                                           *)
(***************************************************************************)
OUTPUT_FILE == "families-e-ordens-em-portugues.txt"
NL == "\n"

\* The concatenation of a sequence of sequences.
Flatten(ss) ==
    LET upto[n \in 0..Len(ss)] == IF n = 0 THEN <<>> ELSE upto[n - 1] \o ss[n]
    IN  upto[Len(ss)]

\* f"{ordem}: {nome}"
FormatEntry(e) == e.k \o <<": ">> \o e.v

\* Variant: the second header is written without its leading line feed.
FileWrites_NoBlankLine(o, f) ==
    <<  <<"Ordens encontradas:", NL>>  >>
    \o [i \in DOMAIN o |-> FormatEntry(o[i]) \o <<NL>>]
    \o <<  <<"Famílias encontradas:", NL>>  >>
    \o [i \in DOMAIN f |-> FormatEntry(f[i]) \o <<NL>>]

\* The arguments of the successive f.write calls.
FileWrites(o, f) ==
    <<  <<"Ordens encontradas:", NL>>  >>
    \o [i \in DOMAIN o |-> FormatEntry(o[i]) \o <<NL>>]
    \o <<  <<NL, "Famílias encontradas:", NL>>  >>
    \o [i \in DOMAIN f |-> FormatEntry(f[i]) \o <<NL>>]

\* Variant: the file is opened with mode "a" and keeps what it held.
OpenForWrite_Append(old) == [exists |-> TRUE, data |-> old.data]

\* open(output_file, "w"): the file exists and is empty, whatever it held.
OpenForWrite(old) == [exists |-> TRUE, data |-> <<>>]

\* The file after open and the first n f.write calls.
FileAfter(old, writes, n) ==
    [exists |-> TRUE,
     data |-> OpenForWrite(old).data \o Flatten(SubSeq(writes, 1, n))]

\* The print calls of the console echo (print ends each with a line feed).
EchoOutput(o, f) ==
    <<NL, "Ordens encontradas:", NL>>
    \o Flatten([i \in DOMAIN o |-> FormatEntry(o[i]) \o <<NL>>])
    \o <<NL, "Famílias encontradas:", NL>>
    \o Flatten([i \in DOMAIN f |-> FormatEntry(f[i]) \o <<NL>>])
    \o <<NL, "Processamento concluído.", NL>>

UsageMessage == <<"Uso: ./processar_pdf.py <caminho_do_arquivo_pdf>", NL>>
NotFoundMessage(path) == <<"Erro: Arquivo não encontrado no caminho: ", path, NL>>
OpenErrorMessage == <<"Erro ao abrir o PDF: ", "{e}", NL>>
SavedMessage == <<NL, "Resultados salvos em: ", OUTPUT_FILE, NL>>
WriteErrorMessage == <<"Erro ao escrever o arquivo de saída: ", "{e}", NL>>

(***************************************************************************)
(* Inputs                                                                  *)
(***************************************************************************)
PROG == "extract-families-portuguese.py"
PATH == "aves.pdf"

\* "Ordem Av av"
PageA == ORDEM \o <<" ", "A", "v", " ", "a", "v">>
\* "SubOrdem Bo bo, ordem Av bo"
PageB == <<"S", "u", "b">> \o ORDEM \o <<" ", "B", "o", " ", "b", "o", ",", " ">>
         \o <<"o", "r", "d", "e", "m", " ", "A", "v", " ", "b", "o">>
\* "Ordem\nAv pá\nFamília Av av"
PageC == ORDEM \o <<"\n", "A", "v", " ", "p", "á", "\n">>
         \o FAMILIA \o <<" ", "A", "v", " ", "a", "v">>
\* "Família Fe fe Família\tFe pá Ordem Av Pá"
PageD == FAMILIA \o <<" ", "F", "e", " ", "f", "e", " ">>
         \o FAMILIA \o <<"\t", "F", "e", " ", "p", "á", " ">>
         \o ORDEM \o <<" ", "A", "v", " ", "P", "á">>

PageTexts == {<<>>, PageA, PageB, PageC, PageD}

Documents == UNION {[1..n -> PageTexts] : n \in 0..MaxPages}

PdfFiles == {[kind |-> "missing", pages |-> <<>>], [kind |-> "corrupt", pages |-> <<>>]}
            \cup {[kind |-> "pdf", pages |-> p] : p \in Documents}

NoFile == [exists |-> FALSE, data |-> <<>>]
StaleFile == [exists |-> TRUE, data |-> <<"stale", NL>>]

(***************************************************************************)
(* The script                                                              *)
(***************************************************************************)
Init ==
    /\ argv \in {<<PROG>>, <<PROG, PATH>>}
    /\ pdf \in PdfFiles
    /\ outfile \in {NoFile, StaleFile}
    /\ pc = "start"
    /\ doc = "none"
    /\ page_num = 0
    /\ text = <<>>
    /\ ordens = <<>>
    /\ familias = <<>>
    /\ stdout = <<>>
    /\ traceback = FALSE
    /\ exit_code = -1
    /\ read = <<>>
    /\ run = 1
    /\ fileAtStart = outfile
    /\ prevSaved = FALSE

page_count == Len(pdf.pages)

\* if len(sys.argv) < 2: print usage; sys.exit(1)
CheckArgs ==
    /\ pc = "start"
    /\ IF Len(argv) < 2
       THEN /\ stdout' = stdout \o UsageMessage
            /\ exit_code' = 1
            /\ pc' = "exit"
       ELSE /\ pc' = "open"
            /\ UNCHANGED <<stdout, exit_code>>
    /\ UNCHANGED <<argv, pdf, outfile, doc, page_num, text, ordens, familias,
                   traceback, read, run, fileAtStart, prevSaved>>

\* Variant: the handler of a file that cannot be parsed prints the error and
\* forgets sys.exit(1), so the script goes on to the (empty) scan.
OpenDoc_NoExit ==
    /\ pc = "open"
    /\ CASE pdf.kind = "missing" ->
              /\ stdout' = stdout \o NotFoundMessage(argv[2])
              /\ exit_code' = 1
              /\ pc' = "exit"
         [] pdf.kind = "corrupt" ->
              /\ stdout' = stdout \o OpenErrorMessage
              /\ exit_code' = exit_code
              /\ pc' = "loop"
         [] OTHER ->
              /\ pc' = "loop"
              /\ UNCHANGED <<stdout, exit_code>>
    /\ doc' = IF pdf.kind = "pdf" THEN "open" ELSE doc
    /\ ordens' = <<>>
    /\ familias' = <<>>
    /\ page_num' = 0
    /\ UNCHANGED <<argv, pdf, outfile, text, traceback, read, run, fileAtStart,
                   prevSaved>>

\* try: doc = fitz.open(pdf_path) except ...: print; sys.exit(1)
OpenDoc ==
    /\ pc = "open"
    /\ CASE pdf.kind = "missing" ->
              /\ stdout' = stdout \o NotFoundMessage(argv[2])
              /\ exit_code' = 1
              /\ pc' = "exit"
              /\ UNCHANGED <<doc, ordens, familias>>
         [] pdf.kind = "corrupt" ->
              /\ stdout' = stdout \o OpenErrorMessage
              /\ exit_code' = 1
              /\ pc' = "exit"
              /\ UNCHANGED <<doc, ordens, familias>>
         [] OTHER ->
              /\ doc' = "open"
              /\ ordens' = <<>>
              /\ familias' = <<>>
              /\ pc' = "loop"
              /\ UNCHANGED <<stdout, exit_code>>
    /\ page_num' = 0
    /\ UNCHANGED <<argv, pdf, outfile, text, traceback, read, run, fileAtStart,
                   prevSaved>>

\* page = doc.load_page(page_num); text = page.get_text("text")
LoadPage ==
    /\ pc = "loop"
    /\ page_num < page_count
    /\ text' = pdf.pages[page_num + 1]
    /\ read' = Append(read, page_num)
    /\ pc' = "ordens"
    /\ UNCHANGED <<argv, pdf, outfile, doc, page_num, ordens, familias, stdout,
                   traceback, exit_code, run, fileAtStart, prevSaved>>

\* Variant: the failure of a page is caught and the page skipped (continue).
LoadPageFails_Skip ==
    /\ pc = "loop"
    /\ page_num < page_count
    /\ page_num' = page_num + 1
    /\ UNCHANGED <<argv, pdf, outfile, pc, doc, text, ordens, familias, stdout,
                   traceback, exit_code, read, run, fileAtStart, prevSaved>>

\* load_page or get_text raises: nothing catches it, the interpreter prints
\* the traceback and exits with status 1; doc.close() is not reached.
LoadPageFails ==
    /\ pc = "loop"
    /\ page_num < page_count
    /\ traceback' = TRUE
    /\ exit_code' = 1
    /\ pc' = "exit"
    /\ UNCHANGED <<argv, pdf, outfile, doc, page_num, text, ordens, familias,
                   stdout, read, run, fileAtStart, prevSaved>>

\* Variant: the order loop iterates the matches of the family pattern.
ScanOrdens_WrongPattern ==
    /\ pc = "ordens"
    /\ ordens' = Accumulate(ordens, finditer(text, FAMILIA))
    /\ pc' = "familias"
    /\ UNCHANGED <<argv, pdf, outfile, doc, page_num, text, familias, stdout,
                   traceback, exit_code, read, run, fileAtStart, prevSaved>>

\* for match in ordem_pattern.finditer(text): ordens[group 1] = group 2
ScanOrdens ==
    /\ pc = "ordens"
    /\ ordens' = Accumulate(ordens, finditer(text, ORDEM))
    /\ pc' = "familias"
    /\ UNCHANGED <<argv, pdf, outfile, doc, page_num, text, familias, stdout,
                   traceback, exit_code, read, run, fileAtStart, prevSaved>>

\* Variant: the loop advances by two pages (range(0, n, 2)).
ScanFamilias_StepTwo ==
    /\ pc = "familias"
    /\ familias' = Accumulate(familias, finditer(text, FAMILIA))
    /\ page_num' = page_num + 2
    /\ pc' = "loop"
    /\ UNCHANGED <<argv, pdf, outfile, doc, text, ordens, stdout, traceback,
                   exit_code, read, run, fileAtStart, prevSaved>>

\* for match in familia_pattern.finditer(text): familias[group 1] = group 2
ScanFamilias ==
    /\ pc = "familias"
    /\ familias' = Accumulate(familias, finditer(text, FAMILIA))
    /\ page_num' = page_num + 1
    /\ pc' = "loop"
    /\ UNCHANGED <<argv, pdf, outfile, doc, text, ordens, stdout, traceback,
                   exit_code, read, run, fileAtStart, prevSaved>>

\* the range is exhausted: doc.close()
CloseDoc ==
    /\ pc = "loop"
    /\ page_num >= page_count
    /\ doc' = "closed"
    /\ pc' = "write"
    /\ UNCHANGED <<argv, pdf, outfile, page_num, text, ordens, familias, stdout,
                   traceback, exit_code, read, run, fileAtStart, prevSaved>>

\* with open(output_file, "w") ...: every write succeeds; print the path
WriteOutput ==
    /\ pc = "write"
    /\ LET writes == FileWrites(ordens, familias)
       IN  outfile' = FileAfter(outfile, writes, Len(writes))
    /\ stdout' = stdout \o SavedMessage
    /\ pc' = "echo"
    /\ UNCHANGED <<argv, pdf, doc, page_num, text, ordens, familias, traceback,
                   exit_code, read, run, fileAtStart, prevSaved>>

\* Variant: no try/except around the write: the exception ends the script.
WriteOutputFails_Uncaught ==
    /\ pc = "write"
    /\ LET writes == FileWrites(ordens, familias)
       IN  \/ outfile' = outfile
           \/ \E n \in 0..Len(writes) : outfile' = FileAfter(outfile, writes, n)
    /\ traceback' = TRUE
    /\ exit_code' = 1
    /\ pc' = "exit"
    /\ UNCHANGED <<argv, pdf, doc, page_num, text, ordens, familias, stdout,
                   read, run, fileAtStart, prevSaved>>

\* open raises (the file is left as it was), or a write or the closing flush
\* raises after n writes reached the file; except Exception prints the error.
WriteOutputFails ==
    /\ pc = "write"
    /\ LET writes == FileWrites(ordens, familias)
       IN  \/ outfile' = outfile
           \/ \E n \in 0..Len(writes) : outfile' = FileAfter(outfile, writes, n)
    /\ stdout' = stdout \o WriteErrorMessage
    /\ pc' = "echo"
    /\ UNCHANGED <<argv, pdf, doc, page_num, text, ordens, familias, traceback,
                   exit_code, read, run, fileAtStart, prevSaved>>

\* the print calls that end the script; falling off the end exits with 0
EchoResults ==
    /\ pc = "echo"
    /\ stdout' = stdout \o EchoOutput(ordens, familias)
    /\ exit_code' = 0
    /\ pc' = "exit"
    /\ UNCHANGED <<argv, pdf, outfile, doc, page_num, text, ordens, familias,
                   traceback, read, run, fileAtStart, prevSaved>>

Contains(s, x) == \E i \in DOMAIN s : s[i] = x
Saved == Contains(stdout, "Resultados salvos em: ")

\* The script is invoked again with the same arguments on the same files: a
\* new process, whose only inheritance is the output file.
RunAgain ==
    /\ pc = "exit"
    /\ run < MaxRuns
    /\ run' = run + 1
    /\ prevSaved' = Saved
    /\ fileAtStart' = outfile
    /\ pc' = "start"
    /\ doc' = "none"
    /\ page_num' = 0
    /\ text' = <<>>
    /\ ordens' = <<>>
    /\ familias' = <<>>
    /\ stdout' = <<>>
    /\ traceback' = FALSE
    /\ exit_code' = -1
    /\ read' = <<>>
    /\ UNCHANGED <<argv, pdf, outfile>>

Step ==
    \/ CheckArgs
    \/ OpenDoc
    \/ LoadPage
    \/ LoadPageFails
    \/ ScanOrdens
    \/ ScanFamilias
    \/ CloseDoc
    \/ WriteOutput
    \/ WriteOutputFails
    \/ EchoResults

Next == Step \/ RunAgain

Spec == Init /\ [][Next]_vars

\* One invocation: a started process takes every step of the script until it
\* exits (the script is sequential and waits for nothing).
LiveSpec == Init /\ [][Step]_vars /\ WF_vars(Step)

(***************************************************************************)
(* Reference definitions for the properties, stated on the document        *)
(***************************************************************************)
\* Every match of a pattern in document order: pages by increasing index,
\* matches left to right within a page.
\* The matches of each pattern on each page text of the model.
PageMatches == [t \in PageTexts |-> [o |-> finditer(t, ORDEM), f |-> finditer(t, FAMILIA)]]

MatchesOfPage(i, keyword) ==
    IF keyword = ORDEM THEN PageMatches[pdf.pages[i]].o ELSE PageMatches[pdf.pages[i]].f

AllMatches(keyword) == Flatten([i \in 1..page_count |-> MatchesOfPage(i, keyword)])

\* The set of matches on the pages of the given (zero-based) indices.
MatchesOn(pages, keyword) ==
    UNION {{MatchesOfPage(p + 1, keyword)[j] : j \in DOMAIN MatchesOfPage(p + 1, keyword)} :
           p \in pages}

\* The value a map holds for a key.
Lookup(d, k) == d[CHOOSE i \in DOMAIN d : d[i].k = k].v

MatchedKeys(ms) == {ms[i].g1 : i \in DOMAIN ms}

LastIndex(ms, key) ==
    CHOOSE i \in DOMAIN ms :
        ms[i].g1 = key /\ \A j \in DOMAIN ms : ms[j].g1 = key => j <= i

LastValue(ms, key) == ms[LastIndex(ms, key)].g2

IsFirstMatch(ms, i) == \A j \in 1..(i - 1) : ms[j].g1 # ms[i].g1

RECURSIVE FirstSeenFrom(_, _)
FirstSeenFrom(ms, i) ==
    IF i > Len(ms) THEN <<>>
    ELSE (IF IsFirstMatch(ms, i)
          THEN <<[k |-> ms[i].g1, v |-> LastValue(ms, ms[i].g1)]>>
          ELSE <<>>) \o FirstSeenFrom(ms, i + 1)

\* Keys in the order of their first match, each with the value of its last.
FirstSeenLastValue(ms) == FirstSeenFrom(ms, 1)

EntryLines(d) == [i \in DOMAIN d |-> d[i].k \o <<": ">> \o d[i].v]
JoinLines(ls) == Flatten([i \in DOMAIN ls |-> ls[i] \o <<"\n">>])

\* The layout of the output file, line by line.
ExpectedFile(o, f) ==
    JoinLines(<< <<"Ordens encontradas:">> >> \o EntryLines(o)
              \o << <<>>, <<"Famílias encontradas:">> >> \o EntryLines(f))

\* The console echo, line by line, and the completion message.
ExpectedEcho(o, f) ==
    JoinLines(<< <<>>, <<"Ordens encontradas:">> >> \o EntryLines(o)
              \o << <<>>, <<"Famílias encontradas:">> >> \o EntryLines(f)
              \o << <<>>, <<"Processamento concluído.">> >>)

EndsWith(s, t) == Len(t) <= Len(s) /\ SubSeq(s, Len(s) - Len(t) + 1, Len(s)) = t

PagesInOrder(r) == \A i \in DOMAIN r : r[i] = i - 1

\* Every page has been loaded and both of its loops have run.
ScanComplete ==
    /\ doc # "none"
    /\ Len(read) = page_count
    /\ pc \notin {"ordens", "familias"}

EchoStarted == Contains(stdout, "Ordens encontradas:")
WriteErrorReported == Contains(stdout, "Erro ao escrever o arquivo de saída: ")
Opened == doc # "none"

(***************************************************************************)
(* Properties                                                              *)
(***************************************************************************)

\* C1: last match wins.  Once the scan is complete, every Latin name matched
\* by the Order (Family) pattern is a key of the Order (Family) map, and its
\* value is the Portuguese name of the last match of that name in document
\* order, also when the name was matched before on the same or another page.
C1_LastMatchWins ==
    ScanComplete =>
        /\ \A key \in MatchedKeys(AllMatches(ORDEM)) :
              HasKey(ordens, key) /\ Lookup(ordens, key) = LastValue(AllMatches(ORDEM), key)
        /\ \A key \in MatchedKeys(AllMatches(FAMILIA)) :
              HasKey(familias, key)
              /\ Lookup(familias, key) = LastValue(AllMatches(FAMILIA), key)

\* A finished run on a three-page document whose page 1 and page 3 match the
\* same order with different Portuguese names, and a family matched twice on
\* one page with different names.
C1_Witness ==
    /\ pc = "exit" /\ exit_code = 0 /\ page_count = 3
    /\ \E m1 \in MatchesOn({0}, ORDEM), m3 \in MatchesOn({2}, ORDEM) :
          /\ m1.g1 = m3.g1 /\ m1.g2 # m3.g2
          /\ Lookup(ordens, m1.g1) = m3.g2
    /\ \E i, j \in DOMAIN MatchesOfPage(2, FAMILIA) :
          LET ms == MatchesOfPage(2, FAMILIA)
          IN  i < j /\ ms[i].g1 = ms[j].g1 /\ ms[i].g2 # ms[j].g2
              /\ Lookup(familias, ms[i].g1) = ms[j].g2

\* C2: when the path argument is missing, or the path names no file, or the
\* file cannot be parsed, the run never opens a document, reads no page,
\* leaves both maps empty and the output file as it found it, and ends with
\* exit code 1 having printed exactly the error message of that failure.
PreScanFailure == Len(argv) < 2 \/ pdf.kind # "pdf"

C2_PreScanFailure ==
    PreScanFailure =>
        /\ pc \in {"start", "open", "exit"}
        /\ doc = "none"
        /\ read = <<>>
        /\ ordens = <<>> /\ familias = <<>>
        /\ outfile = fileAtStart
        /\ ~traceback
        /\ pc = "exit" =>
              /\ exit_code = 1
              /\ stdout = IF Len(argv) < 2 THEN UsageMessage
                          ELSE IF pdf.kind = "missing" THEN NotFoundMessage(argv[2])
                          ELSE OpenErrorMessage

\* A run ended by a file that does not exist, with the output file present
\* from before.
C2_Witness ==
    /\ pc = "exit" /\ exit_code = 1
    /\ Len(argv) = 2 /\ pdf.kind = "missing"
    /\ Contains(stdout, PATH)
    /\ outfile = StaleFile

\* C3: a run that completes the scan ends with exit code 0 and with the
\* console echo (both headers, every entry of both maps, the completion
\* message) as the last thing printed, whether the file was saved or not; and
\* when the file was not saved the write error has been printed before it.
C3_EchoAfterWriteFailure ==
    (pc = "exit" /\ ScanComplete) =>
        /\ exit_code = 0
        /\ ~traceback
        /\ EndsWith(stdout, ExpectedEcho(ordens, familias))
        /\ stdout = (IF Saved THEN SavedMessage ELSE WriteErrorMessage)
                    \o ExpectedEcho(ordens, familias)

\* A run whose write failed and left the output file as it was, with entries
\* in both maps.
C3_Witness ==
    /\ pc = "exit" /\ ScanComplete
    /\ WriteErrorReported /\ ~Saved
    /\ outfile = fileAtStart
    /\ ordens # <<>> /\ familias # <<>>
    /\ EchoStarted

\* C4: no partial results.  The output file differs from what the run found,
\* or the echo has started, only when every page 0..pageCount-1 has been
\* scanned; a run ended by a page failure has left the file alone and has
\* printed nothing.
C4_NoPartialResults ==
    /\ (outfile # fileAtStart \/ EchoStarted \/ pc \in {"write", "echo"}) =>
          (ScanComplete /\ PagesInOrder(read))
    /\ (pc = "exit" /\ Opened /\ Len(read) < page_count) =>
          (outfile = fileAtStart /\ stdout = <<>> /\ exit_code = 1)

\* A run ended by the failure of a later page, after earlier pages put
\* entries in a map.
C4_Witness ==
    /\ pc = "exit" /\ traceback
    /\ Len(read) >= 1 /\ Len(read) < page_count
    /\ ordens # <<>>
    /\ outfile = fileAtStart /\ stdout = <<>>

\* C5: no run that opened the document ends with the handle still open.
C5_HandleReleased == pc = "exit" => doc # "open"

\* C6: map provenance.  In every state each entry of the Order (Family) map
\* is the pair of capture groups of an Order (Family) match on a page already
\* loaded, keys are unique, and no step of a run changes both maps.
Provenance(d, keyword) ==
    /\ \A i \in DOMAIN d :
          [g1 |-> d[i].k, g2 |-> d[i].v] \in MatchesOn({read[j] : j \in DOMAIN read}, keyword)
    /\ \A i, j \in DOMAIN d : d[i].k = d[j].k => i = j

C6_Provenance ==
    /\ [](Provenance(ordens, ORDEM) /\ Provenance(familias, FAMILIA))
    /\ [][pc' # "start" => (ordens' = ordens \/ familias' = familias)]_vars

\* A state during the scan where the same Latin name is in both maps with
\* different Portuguese names.
C6_Witness ==
    /\ pc = "loop" /\ doc = "open"
    /\ \E i \in DOMAIN ordens, j \in DOMAIN familias :
          ordens[i].k = familias[j].k /\ ordens[i].v # familias[j].v

\* C7: on every successful run (exit code 0, file saved) the output file
\* holds exactly the Order header, one "key: value" line per entry of the
\* Order map, a blank line, the Family header and one line per entry of the
\* Family map; with no match at all it holds the two headers and the blank
\* line between them.
Successful == pc = "exit" /\ exit_code = 0 /\ Saved

C7_FileLayout ==
    Successful =>
        /\ outfile.exists
        /\ outfile.data = ExpectedFile(ordens, familias)
        /\ (AllMatches(ORDEM) = <<>> /\ AllMatches(FAMILIA) = <<>>) =>
              outfile.data = <<"Ordens encontradas:", "\n", "\n",
                               "Famílias encontradas:", "\n">>

\* A successful run with entries in both maps over a file that held other
\* content.
C7_Witness ==
    /\ Successful
    /\ ordens # <<>> /\ familias # <<>>
    /\ fileAtStart = StaleFile

\* C8: idempotence.  The file a successful run leaves is a function of the
\* page texts alone, and a successful run after a successful run leaves the
\* file it found.
C8_Idempotent ==
    Successful =>
        /\ outfile.data = ExpectedFile(FirstSeenLastValue(AllMatches(ORDEM)),
                                       FirstSeenLastValue(AllMatches(FAMILIA)))
        /\ (run >= 2 /\ prevSaved) => outfile = fileAtStart

\* A second successful run after a successful first one, with entries.
C8_Witness ==
    /\ Successful /\ run = 2 /\ prevSaved
    /\ ordens # <<>>
    /\ outfile = fileAtStart

\* C9 as claimed: a run that opened the document and met no page failure has
\* read pages 0..pageCount-1 in order, closed the document, written the
\* output file and printed the completion message, and exits with 0.
C9_AsClaimed ==
    (pc = "exit" /\ Opened /\ ~traceback) =>
        /\ exit_code = 0
        /\ doc = "closed"
        /\ read = [i \in 1..page_count |-> i - 1]
        /\ outfile.exists /\ outfile.data = ExpectedFile(ordens, familias)
        /\ EndsWith(stdout, <<"Processamento concluído.", "\n">>)

C9_End ==
    (pc = "exit" /\ Opened /\ ~traceback) =>
        /\ exit_code = 0
        /\ doc = "closed"
        /\ read = [i \in 1..page_count |-> i - 1]
        /\ \/ Saved /\ outfile.exists /\ outfile.data = ExpectedFile(ordens, familias)
           \/ ~Saved /\ WriteErrorReported
        /\ EndsWith(stdout, <<"Processamento concluído.", "\n">>)
        /\ page_count = 0 => (ordens = <<>> /\ familias = <<>>)

\* C9, amended: pages are read in the order 0, 1, ..., each once; no page is
\* read once the handle is closed; every started run ends; and a run that
\* opened the document and met no page failure ends with exit code 0 after
\* closing the document, writing the output file or else reporting that the
\* write failed, and printing the completion message.
C9_SequentialScanTerminates ==
    /\ [](PagesInOrder(read) /\ Len(read) <= page_count)
    /\ [][doc' = "closed" => read' = read]_vars
    /\ []C9_End
    /\ (pc = "start") ~> (pc = "exit")

\* A run over three pages that ended with exit code 0 and the file saved.
C9_Witness ==
    /\ pc = "exit" /\ exit_code = 0 /\ doc = "closed"
    /\ page_count = 3 /\ read = <<0, 1, 2>>
    /\ Saved

\* C10: order of the emitted lines.  After the scan each map lists its keys
\* in the order of their first match with the value of their last match, and
\* the file and the console echo of a successful run list these pairs in
\* this order.
C10_EmissionOrder ==
    /\ ScanComplete =>
          /\ ordens = FirstSeenLastValue(AllMatches(ORDEM))
          /\ familias = FirstSeenLastValue(AllMatches(FAMILIA))
    /\ Successful =>
          LET o == FirstSeenLastValue(AllMatches(ORDEM))
              f == FirstSeenLastValue(AllMatches(FAMILIA))
          IN  /\ outfile.data = ExpectedFile(o, f)
              /\ EndsWith(stdout, ExpectedEcho(o, f))

\* A successful run where an order first matched on page 1 is matched again
\* with another name on page 3, after another order was first matched on
\* page 2: it is still listed first, with the name from page 3.
C10_Witness ==
    /\ Successful /\ page_count = 3
    /\ Len(ordens) = 2
    /\ [g1 |-> ordens[1].k, g2 |-> ordens[1].v] \in MatchesOn({2}, ORDEM)
    /\ [g1 |-> ordens[1].k, g2 |-> ordens[1].v] \notin MatchesOn({0}, ORDEM)
    /\ ordens[1].k \in MatchedKeys(MatchesOfPage(1, ORDEM))
    /\ ordens[2].k \in MatchedKeys(MatchesOfPage(2, ORDEM))
    /\ ordens[2].k \notin MatchedKeys(MatchesOfPage(1, ORDEM))

====
